---- MODULE Spec2Model ----
(***************************************************************************)
(* State-machine model of can-blf-parser (src/src/lib.rs): the signal      *)
(* decoder, the frame builder, the BlfSession store with its queries, and  *)
(* the streaming exporters.                                                *)
(*                                                                         *)
(* Representation choices.                                                 *)
(*  - A u64 / i64 word is the set of its 1-bit positions (a subset of      *)
(*    0..63, bit 63 the sign bit of an i64), so that 64-bit shifts, masks  *)
(*    and sign extension keep their width.                                 *)
(*  - A String is the sequence of its character codes, so that format!     *)
(*    and Vec<String>::sort are computed and not assumed.                  *)
(*  - An f64 is modelled exactly: a timestamp in seconds as whole seconds  *)
(*    plus nanoseconds, a signal value as an integer (factors and offsets  *)
(*    of the modelled tables are integers).                                *)
(***************************************************************************)
EXTENDS Integers, Sequences, FiniteSets, TLC

VARIABLES
    sig,             \* decoder input: the can_dbc::Signal
    data,            \* decoder input: the payload bytes
    overflow_checks, \* build profile: TRUE = debug (overflow traps), FALSE = release
    decoded,         \* decoder output, "pending" before the call
    blf,             \* the log container: the sequence of typed log objects
    dbc_texts,       \* the definition-text list handed to every entry point
    channel_map,     \* the channel-id list handed to every entry point
    session,         \* "none" | "ok" | "err": outcome of BlfSession::new
    frames,          \* BlfSession.frames
    signal_names,    \* BlfSession.signal_names
    freed,           \* free_memory has been called on the session
    pc,              \* the caller: "idle" between calls, "decimated" while decimated()
                     \* walks the frames, "returned" while it holds a call's result
    dec,             \* locals of the running decimated() call
    result,          \* what the last completed call returned
    reader,          \* export_csv_stream's pass: the long log and the objects consumed
    csv,             \* locals of the running export_csv_stream() call
    sink             \* the progress sink: the invocations it has received

vars == <<sig, data, overflow_checks, decoded, blf, dbc_texts, channel_map,
          session, frames, signal_names, freed, pc, dec, result, reader, csv, sink>>

decodeVars == <<sig, data, overflow_checks, decoded>>
inputVars == <<blf, dbc_texts, channel_map>>
sessionVars == <<session, frames, signal_names, freed, pc, dec, result>>
streamVars == <<reader, csv, sink>>

-----------------------------------------------------------------------------
(* Bounds of the model *)

\* longest log (number of log objects)
MaxObjs == 5
\* largest point budget max_points
MaxPoints == 3

-----------------------------------------------------------------------------
(* 64-bit words as sets of bit positions *)

WordBits == 64

Min(a, b) == IF a < b THEN a ELSE b
Max(a, b) == IF a > b THEN a ELSE b

RECURSIVE Pow2(_)
Pow2(n) == IF n = 0 THEN 1 ELSE 2 * Pow2(n - 1)

\* the bits of one byte (u8 as u64)
ByteBits(b) == {k \in 0..7 : (b \div Pow2(k)) % 2 = 1}

\* x << n and x >> n on u64, for a shift amount below the width
Shl(x, n) == {i + n : i \in {j \in x : j + n < WordBits}}
Shr(x, n) == {i - n : i \in {j \in x : j >= n}}
\* (x as i64) >> n: the sign bit is copied into the vacated positions
Sar(x, n) == Shr(x, n) \cup (IF (WordBits - 1) \in x THEN (WordBits - n)..(WordBits - 1) ELSE {})

\* x << n for a run-time n: a shift amount >= 64 traps when the build checks
\* overflow and is taken modulo 64 when it does not
shl_u64(x, n, checks) ==
    IF n >= WordBits
    THEN IF checks THEN [trap |-> TRUE, w |-> {}]
                   ELSE [trap |-> FALSE, w |-> Shl(x, n % WordBits)]
    ELSE [trap |-> FALSE, w |-> Shl(x, n)]

SetMin(S) == CHOOSE m \in S : \A k \in S : m <= k

\* x - 1 on u64, x /= 0
Dec1(x) == LET m == SetMin(x) IN (x \ {m}) \cup (0..(m - 1))

\* The integer a word stands for, as an i64; defined when it fits the model checker's
\* integers with room for the scaling (|value| <= 2^24)
RECURSIVE SumBits(_)
SumBits(S) == IF S = {} THEN 0 ELSE LET k == SetMin(S) IN Pow2(k) + SumBits(S \ {k})

Fits(x) ==
    IF (WordBits - 1) \in x
    THEN \A k \in (0..(WordBits - 1)) \ x : k < 24
    ELSE \A k \in x : k < 24

ToInt(x) ==
    IF (WordBits - 1) \in x
    THEN -1 - SumBits((0..(WordBits - 1)) \ x)
    ELSE SumBits(x)

-----------------------------------------------------------------------------
(* SECTION 3: decode_signal_value *)

\* let mut buf = [0u8; 8]; buf[i] = data[i] for i < min(8, len)
PadBuf(bytes) == [i \in 0..7 |-> IF i < Min(8, Len(bytes)) THEN bytes[i + 1] ELSE 0]

\* raw |= (b as u64) << (i * 8)
RawWord(buf) == UNION {Shl(ByteBits(buf[i]), i * 8) : i \in 0..7}

\* Motorola branch: acc |= ((raw >> (start + i)) & 1) << i, i in 0..len
GatherBits(raw, start, len) == {i \in 0..(len - 1) : (start + i) \in raw}

\* Intel branch: (raw >> start) & ((1u64 << len) - 1)
MaskShift(raw, start, len, checks) ==
    LET one == shl_u64({0}, len, checks)
    IN [trap |-> one.trap, w |-> IF one.trap THEN {} ELSE Shr(raw, start) \cap Dec1(one.w)]

\* Signed: ((val_u64 << shift) as i64) >> shift with shift = 64 - len
SignExtend(val, len) == Sar(Shl(val, WordBits - len), WordBits - len)

\* signed_val as f64 * factor + offset. A word outside the model checker's integer
\* range is kept as the unevaluated product.
Scale(x, factor, offset) ==
    IF Fits(x) THEN ToInt(x) * factor + offset
    ELSE [wide |-> x, factor |-> factor, offset |-> offset]

\* decode_signal_value: [kind |-> "none"] for an unusable span, [kind |-> "panic"]
\* for a trapped overflow, else the integer before scaling (int, an i64 word)
\* and the physical value
decode_signal_value(s, bytes, checks) ==
    LET start == s.start_bit
        len == s.signal_size
        raw == RawWord(PadBuf(bytes))
    IN IF len = 0 \/ len > 64 \/ start + len > 64 THEN [kind |-> "none"]
       ELSE LET val_u64 == IF s.byte_order = "BigEndian"
                           THEN [trap |-> FALSE, w |-> GatherBits(raw, start, len)]
                           ELSE MaskShift(raw, start, len, checks)
                signed_val == IF s.value_type = "Signed"
                              THEN SignExtend(val_u64.w, len)
                              ELSE val_u64.w
            IN IF val_u64.trap THEN [kind |-> "panic"]
               ELSE [kind |-> "some", int |-> signed_val,
                     value |-> Scale(signed_val, s.factor, s.offset)]

-----------------------------------------------------------------------------
(* Strings as sequences of character codes *)

\* the decimal digits of n, as Display prints an unsigned integer
RECURSIVE Decimal(_)
Decimal(n) == IF n < 10 THEN <<48 + n>> ELSE Decimal(n \div 10) \o <<48 + (n % 10)>>

\* one uppercase hexadecimal digit
HexDigit(d) == IF d < 10 THEN 48 + d ELSE 55 + d

\* {:X}: uppercase hexadecimal, no forced width
RECURSIVE UpperHex(_)
UpperHex(n) == IF n < 16 THEN <<HexDigit(n)>> ELSE UpperHex(n \div 16) \o <<HexDigit(n % 16)>>

\* {:02X} of one byte
Hex02(b) == <<HexDigit(b \div 16), HexDigit(b % 16)>>

\* String's Ord: lexicographic on the codes, a proper prefix first
RECURSIVE StrLess(_, _)
StrLess(a, b) ==
    IF a = <<>> THEN b /= <<>>
    ELSE IF b = <<>> THEN FALSE
    ELSE IF Head(a) /= Head(b) THEN Head(a) < Head(b)
    ELSE StrLess(Tail(a), Tail(b))

\* Vec<String>::sort: the ascending rearrangement (insertion into a sorted prefix)
RECURSIVE InsertSorted(_, _)
InsertSorted(s, x) ==
    IF s = <<>> THEN <<x>>
    ELSE IF StrLess(x, Head(s)) THEN <<x>> \o s
    ELSE <<Head(s)>> \o InsertSorted(Tail(s), x)

RECURSIVE SortStrings(_)
SortStrings(s) ==
    IF s = <<>> THEN <<>> ELSE InsertSorted(SortStrings(SubSeq(s, 1, Len(s) - 1)), s[Len(s)])

Range(s) == {s[i] : i \in 1..Len(s)}

\* format!("CAN{}", channel)
ChannelTag(channel) == <<67, 65, 78>> \o Decimal(channel)

\* format!("CAN{}.{}", channel, sig.name())
QualifiedName(channel, name) == ChannelTag(channel) \o <<46>> \o name

-----------------------------------------------------------------------------
(* SECTION 4: frame_from_obj *)

\* cf.header.timestamp_ns as f64 / 1e9, kept exact: whole seconds and nanoseconds
Seconds(ns) == [sec |-> ns \div 1000000000, nano |-> ns % 1000000000]

\* the SignalRow list of a matched message: one row per signal that decodes
RECURSIVE SignalRows(_, _, _, _)
SignalRows(sigs, channel, bytes, checks) ==
    IF sigs = <<>> THEN <<>>
    ELSE LET d == decode_signal_value(Head(sigs), bytes, checks)
             rest == SignalRows(Tail(sigs), channel, bytes, checks)
         IN IF d.kind = "some"
            THEN <<[signal |-> QualifiedName(channel, Head(sigs).name),
                    value |-> d.value,
                    unit |-> Head(sigs).unit]>> \o rest
            ELSE rest

\* dbc.messages().iter().find(|m| m.message_id().raw() == id)
FindMessage(messages, id) ==
    IF \E i \in 1..Len(messages) : messages[i].message_id = id
    THEN <<messages[CHOOSE i \in 1..Len(messages) :
                /\ messages[i].message_id = id
                /\ \A j \in 1..(i - 1) : messages[j].message_id /= id]>>
    ELSE <<>>

\* frame_from_obj without the seen_signals update: <<>> for an object that is
\* not a CanMessage86, else <<FrameRow>>. The table is looked up under
\* cf.channel as u8.
frame_from_obj(obj, dbc_map, checks) ==
    IF obj.kind /= "CanMessage86" THEN <<>>
    ELSE LET key == obj.channel % 256
             msg == IF key \in DOMAIN dbc_map
                    THEN FindMessage(dbc_map[key].messages, obj.id)
                    ELSE <<>>
         IN <<[timestamp |-> Seconds(obj.timestamp_ns),
               channel |-> ChannelTag(obj.channel),
               id |-> obj.id,
               name |-> IF msg = <<>> THEN "" ELSE msg[1].message_name,
               event_type |-> "CAN Frame",
               dir |-> "Rx",
               dlc |-> obj.dlc,
               data |-> obj.data,
               signals |-> IF msg = <<>> THEN <<>>
                           ELSE SignalRows(msg[1].signals, obj.channel, obj.data, checks)]>>

\* the seen_signals update of frame_from_obj: push each name not yet contained
RECURSIVE push_seen(_, _)
push_seen(seen, rows) ==
    IF rows = <<>> THEN seen
    ELSE push_seen(IF Head(rows).signal \in Range(seen) THEN seen
                   ELSE Append(seen, Head(rows).signal),
                   Tail(rows))

-----------------------------------------------------------------------------
(* The external collaborators: the definition parser and the container reader *)

\* DBC::try_from(text): the text either parses into its message table or fails
\* (a text is modelled by what the parser makes of it)
ParseDbc(text) == [ok |-> text.parses, dbc |-> [messages |-> text.messages]]

\* BlfFile::from_reader(Cursor::new(bytes)) and the iteration over it: the
\* container either fails to parse or yields its log objects in order
ReadBlf(bytes) == [ok |-> bytes.parses, objs |-> bytes.objs]

\* HashMap::insert
Put(m, k, v) == [x \in (DOMAIN m) \cup {k} |-> IF x = k THEN v ELSE m[x]]

\* for (text, chan) in dbc_texts.iter().zip(channel_map.iter()):
\*     dbc_map.insert(chan, DBC::try_from(text)?)
RECURSIVE build_dbc_map(_, _, _)
build_dbc_map(texts, chans, map) ==
    IF texts = <<>> \/ chans = <<>> THEN [ok |-> TRUE, map |-> map]
    ELSE LET p == ParseDbc(Head(texts))
         IN IF ~p.ok THEN [ok |-> FALSE, map |-> map]
            ELSE build_dbc_map(Tail(texts), Tail(chans), Put(map, Head(chans), p.dbc))

-----------------------------------------------------------------------------
(* SECTION 2.1: BlfSession::new *)

\* for obj in blf { if let Some(frame) = frame_from_obj(.., Some(&mut seen)) { frames.push(frame) } }
RECURSIVE build_frames(_, _, _, _)
build_frames(objs, dbc_map, acc, checks) ==
    IF objs = <<>> THEN acc
    ELSE LET f == frame_from_obj(Head(objs), dbc_map, checks)
         IN build_frames(Tail(objs), dbc_map,
                IF f = <<>> THEN acc
                ELSE [frames |-> Append(acc.frames, f[1]),
                      seen |-> push_seen(acc.seen, f[1].signals)],
                checks)

\* the registry handed over in first-seen order, the sort left out
registry_unsorted(seen) == seen

\* seen_signals.sort() before the session is returned
registry(seen) == SortStrings(seen)

\* BlfSession::new: Err(..) or Ok(BlfSession { frames, signal_names })
new(bytes, texts, chans, checks) ==
    IF Len(texts) /= Len(chans)
    THEN [ok |-> FALSE, err |-> "dbc_texts and channel_map must have same length"]
    ELSE LET m == build_dbc_map(texts, chans, <<>>)
             r == ReadBlf(bytes)
         IN IF ~m.ok THEN [ok |-> FALSE, err |-> "Failed to parse DBC"]
            ELSE IF ~r.ok THEN [ok |-> FALSE, err |-> "Failed to parse BLF"]
            ELSE LET b == build_frames(r.objs, m.map, [frames |-> <<>>, seen |-> <<>>], checks)
                 IN [ok |-> TRUE, frames |-> b.frames, signal_names |-> registry(b.seen)]

-----------------------------------------------------------------------------
(* SECTIONS 2.2 - 2.4, 2.6, 2.7: the session's queries *)

ZeroSeconds == [sec |-> 0, nano |-> 0]

\* stats(): (count, first, last, sig_count)
stats(fs, names) ==
    <<Len(fs),
      IF fs = <<>> THEN ZeroSeconds ELSE fs[1].timestamp,
      IF fs = <<>> THEN ZeroSeconds ELSE fs[Len(fs)].timestamp,
      Len(names)>>

\* preview(n): &self.frames[0..min(n, len)]
preview(fs, n) == SubSeq(fs, 1, Min(n, Len(fs)))

\* signals(): &self.signal_names
signals(names) == names

\* free_memory that clears the frames and leaves the registry
free_memory_keeps_registry(fs, names) == [frames |-> <<>>, signal_names |-> names]

\* free_memory(): frames.clear(); signal_names.clear()
free_memory(fs, names) == [frames |-> <<>>, signal_names |-> <<>>]

\* format!("{:.6}", timestamp)
RECURSIVE ZeroPad(_, _)
ZeroPad(digits, width) == IF Len(digits) >= width THEN digits ELSE ZeroPad(<<48>> \o digits, width)

TimeCell(ts) == Decimal(ts.sec) \o <<46>> \o ZeroPad(Decimal(ts.nano \div 1000), 6)

\* f64::to_string of an integral value
ValueCell(v) == IF v < 0 THEN <<45>> \o Decimal(0 - v) ELSE Decimal(v)

\* data.iter().map(|b| format!("{:02X}", b)).collect::<Vec<_>>().join(" ")
RECURSIVE DataCell(_)
DataCell(bytes) ==
    IF bytes = <<>> THEN <<>>
    ELSE IF Len(bytes) = 1 THEN Hex02(bytes[1])
    ELSE Hex02(bytes[1]) \o <<32>> \o DataCell(Tail(bytes))

BaseHeader == <<"Time [s]", "Channel", "ID", "Name", "Event Type", "Dir", "DLC", "Data">>

\* the eight fixed cells of a row
BaseCells(f) ==
    <<TimeCell(f.timestamp), f.channel, <<48, 120>> \o UpperHex(f.id), f.name,
      f.event_type, f.dir, Decimal(f.dlc), DataCell(f.data)>>

\* sig_map: HashMap<&str, f64> collected from the frame's rows (a later row of
\* the same name replaces an earlier one); the cell of a selected name
SignalCell(rows, sname) ==
    LET hits == {i \in 1..Len(rows) : rows[i].signal = sname}
    IN IF hits = {} THEN <<>>
       ELSE ValueCell(rows[CHOOSE i \in hits : \A j \in hits : j <= i].value)

\* export_csv(applied_signals): selected is <<>> for None, <<list>> for Some(list)
export_csv(fs, selected) ==
    LET sel == IF selected = <<>> THEN <<>> ELSE selected[1]
    IN [header |-> BaseHeader \o sel,
        rows |-> [i \in 1..Len(fs) |->
                    BaseCells(fs[i]) \o [j \in 1..Len(sel) |-> SignalCell(fs[i].signals, sel[j])]]]

-----------------------------------------------------------------------------
(* SECTION 2.5: decimated. An Option<f64> is <<>> for None and <<v>> for     *)
(* Some(v); in the JSON result null is <<>> and a number v is <<v>>.         *)

\* decimated_begin with the stride rounded up instead of down
decimated_begin_ceil_step(fs, names, max_points, keep) ==
    LET keys == IF keep = <<>> THEN names ELSE keep[1]
    IN [max_points |-> max_points,
        keep |-> keep,
        keys |-> keys,
        step |-> Max(1, (Len(fs) + max_points - 1) \div max_points),
        i |-> 0,
        dec_time |-> <<>>,
        dec_signals |-> [k \in Range(keys) |-> <<>>],
        last_seen |-> [k \in Range(keys) |-> <<>>]]

\* the locals of decimated() before the loop: keys, step, dec_time,
\* dec_signals and last_seen (keep is <<>> for null, <<list>> for a list)
decimated_begin(fs, names, max_points, keep) ==
    LET keys == IF keep = <<>> THEN names ELSE keep[1]
    IN [max_points |-> max_points,
        keep |-> keep,
        keys |-> keys,
        step |-> Max(1, Len(fs) \div max_points),
        i |-> 0,
        dec_time |-> <<>>,
        dec_signals |-> [k \in Range(keys) |-> <<>>],
        last_seen |-> [k \in Range(keys) |-> <<>>]]

\* for s in &frame.signals { last_seen.insert(s.signal.clone(), Some(s.value)) }
RECURSIVE observe(_, _)
observe(last_seen, rows) ==
    IF rows = <<>> THEN last_seen
    ELSE observe(Put(last_seen, Head(rows).signal, <<Head(rows).value>>), Tail(rows))

\* for k in &keys { arr.push(last_seen.get(k).cloned().unwrap_or(None)) }
RECURSIVE push_samples(_, _, _)
push_samples(keys, dec_signals, last_seen) ==
    IF keys = <<>> THEN dec_signals
    ELSE LET k == Head(keys)
             v == IF k \in DOMAIN last_seen THEN last_seen[k] ELSE <<>>
         IN push_samples(Tail(keys),
                         [dec_signals EXCEPT ![k] = Append(@, v)],
                         last_seen)

\* decimated_frame with the sample taken before the frame's own signals are applied
decimated_frame_sample_first(d, frame) ==
    LET sampled == d.i % d.step = 0
    IN [d EXCEPT !.last_seen = observe(d.last_seen, frame.signals),
                 !.dec_time = IF sampled THEN Append(@, frame.timestamp) ELSE @,
                 !.dec_signals = IF sampled THEN push_samples(d.keys, @, d.last_seen) ELSE @,
                 !.i = @ + 1]

\* one iteration of the loop over self.frames.iter().enumerate()
decimated_frame(d, frame) ==
    LET seen == observe(d.last_seen, frame.signals)
        sampled == d.i % d.step = 0
    IN [d EXCEPT !.last_seen = seen,
                 !.dec_time = IF sampled THEN Append(@, frame.timestamp) ELSE @,
                 !.dec_signals = IF sampled THEN push_samples(d.keys, @, seen) ELSE @,
                 !.i = @ + 1]

\* the JSON object built after the loop
decimated_end(d) == [time |-> d.dec_time, signals |-> d.dec_signals]

\* the early return for a session without frames
decimated_empty == [time |-> <<>>, signals |-> <<>>]

-----------------------------------------------------------------------------
(* SECTIONS 2.8 - 2.10: the entry points that work on the byte buffer *)

PreviewCap == 50
CsvProgressRows == 10000
DecProgressFrames == 50000

\* the buffer in bytes: every log object of the modelled containers takes one
\* block of 16 MiB, so that a slice boundary falls between objects
ObjBytes == 16 * 1024 * 1024
BufLen(bytes) == Len(bytes.objs) * ObjBytes
Slice(bytes, n) == [bytes EXCEPT !.objs = SubSeq(@, 1, Min(n, BufLen(bytes)) \div ObjBytes)]

\* load_preview_smart: the slice policy, a session over the slice, its first frames
load_preview_smart(bytes, texts, chans, file_size, checks) ==
    LET slice_len == IF file_size <= 20 * 1024 * 1024 THEN BufLen(bytes)
                     ELSE Min(file_size \div 20, 100 * 1024 * 1024)
        s == new(Slice(bytes, slice_len), texts, chans, checks)
    IN IF ~s.ok THEN s
       ELSE [ok |-> TRUE, out |-> SubSeq(s.frames, 1, Min(PreviewCap, Len(s.frames)))]

\* the loop of export_csv_stream: a row per data frame, the sink every 10,000 rows
RECURSIVE csv_walk(_, _, _, _)
csv_walk(objs, dbc_map, acc, checks) ==
    IF objs = <<>> THEN acc
    ELSE LET f == frame_from_obj(Head(objs), dbc_map, checks)
             n == acc.frame_count + 1
         IN csv_walk(Tail(objs), dbc_map,
                IF f = <<>> THEN acc
                ELSE [frame_count |-> n,
                      rows |-> Append(acc.rows, BaseCells(f[1])),
                      progress |-> IF n % CsvProgressRows = 0
                                   THEN Append(acc.progress, n) ELSE acc.progress],
                checks)

\* export_csv_stream: no comparison of the two lists' lengths; zip pairs them
export_csv_stream(bytes, texts, chans, checks) ==
    LET m == build_dbc_map(texts, chans, <<>>)
        r == ReadBlf(bytes)
    IN IF ~m.ok THEN [ok |-> FALSE, err |-> "Failed to parse DBC"]
       ELSE IF ~r.ok THEN [ok |-> FALSE, err |-> "Failed to parse BLF"]
       ELSE LET w == csv_walk(r.objs, m.map,
                              [frame_count |-> 0, rows |-> <<>>, progress |-> <<>>], checks)
            IN [ok |-> TRUE, out |-> [header |-> BaseHeader, rows |-> w.rows],
                progress |-> w.progress]

\* export_csv_stream walked one log object at a time. The writer's buffer holds
\* the header record and the data records; the record written for the log
\* object at position p is BaseCells of its frame, so the data records are kept
\* as the positions whose records were written, in writing order, consecutive
\* positions joined into one run [from, to], next to the cells last written.

\* wtr.write_record(&[..]) for the frame of the log object at position pos
write_record(wtr, pos, cells) ==
    LET n == Len(wtr.rows)
    IN [wtr EXCEPT !.rows = IF n > 0 /\ wtr.rows[n].to + 1 = pos
                            THEN [wtr.rows EXCEPT ![n].to = pos]
                            ELSE Append(wtr.rows, [from |-> pos, to |-> pos]),
                   !.last = <<cells>>]

\* export_csv_stream up to its loop: the tables, the container, the header record
csv_stream_begin(log, texts, chans) ==
    LET m == build_dbc_map(texts, chans, <<>>)
    IN IF ~m.ok THEN [ok |-> FALSE, err |-> "Failed to parse DBC"]
       ELSE IF ~log.parses THEN [ok |-> FALSE, err |-> "Failed to parse BLF"]
       ELSE [ok |-> TRUE, dbc_map |-> m.map, frame_count |-> 0,
             wtr |-> [header |-> BaseHeader, rows |-> <<>>, last |-> <<>>]]

\* the loop body with frame_count advanced by every log object, a frame or not
csv_stream_object_counts_objects(c, obj, pos, checks) ==
    LET f == frame_from_obj(obj, c.dbc_map, checks)
        n == c.frame_count + 1
    IN [locals |-> IF f = <<>> THEN [c EXCEPT !.frame_count = n]
                   ELSE [c EXCEPT !.frame_count = n,
                                  !.wtr = write_record(@, pos, BaseCells(f[1]))],
        notify |-> IF n % CsvProgressRows = 0 THEN <<n>> ELSE <<>>]

\* one iteration of export_csv_stream's loop, for the log object at position
\* pos: the locals after it, and notify = <<n>> when the sink is to be called
\* with n (<<>> when it is not)
csv_stream_object(c, obj, pos, checks) ==
    LET f == frame_from_obj(obj, c.dbc_map, checks)
        n == c.frame_count + 1
    IN IF f = <<>> THEN [locals |-> c, notify |-> <<>>]
       ELSE [locals |-> [c EXCEPT !.frame_count = n,
                                  !.wtr = write_record(@, pos, BaseCells(f[1]))],
             notify |-> IF n % CsvProgressRows = 0 THEN <<n>> ELSE <<>>]

\* let _ = progress_cb.call1(&JsValue::NULL, &JsValue::from_f64(n)): the sink
\* receives n; it returns or throws, and the Result is dropped either way
call1(calls, n, threw) == Append(calls, [count |-> n, threw |-> threw])

\* wtr.into_inner(): the finished buffer
csv_stream_end(c) == [ok |-> TRUE, out |-> c.wtr]

\* for s in frame.signals { signals_map.entry(s.signal).or_default().push(s.value) }
RECURSIVE push_rows(_, _)
push_rows(signals_map, rows) ==
    IF rows = <<>> THEN signals_map
    ELSE LET k == Head(rows).signal
             old == IF k \in DOMAIN signals_map THEN signals_map[k] ELSE <<>>
         IN push_rows(Put(signals_map, k, Append(old, Head(rows).value)), Tail(rows))

\* the second pass of decimated_stream
RECURSIVE stream_walk(_, _, _, _, _)
stream_walk(objs, dbc_map, step, acc, checks) ==
    IF objs = <<>> THEN acc
    ELSE LET f == frame_from_obj(Head(objs), dbc_map, checks)
             sampled == acc.count % step = 0
             n == acc.count + 1
         IN stream_walk(Tail(objs), dbc_map, step,
                IF f = <<>> THEN acc
                ELSE [count |-> n,
                      times |-> IF sampled THEN Append(acc.times, f[1].timestamp)
                                ELSE acc.times,
                      signals_map |-> IF sampled THEN push_rows(acc.signals_map, f[1].signals)
                                      ELSE acc.signals_map,
                      progress |-> IF n % DecProgressFrames = 0
                                   THEN Append(acc.progress, n) ELSE acc.progress],
                checks)

\* decimated_stream: pass 1 counts the CanMessage86 objects, pass 2 samples
decimated_stream(bytes, texts, chans, max_points, checks) ==
    LET m == build_dbc_map(texts, chans, <<>>)
        r == ReadBlf(bytes)
    IN IF ~m.ok THEN [ok |-> FALSE, err |-> "Failed to parse DBC"]
       ELSE IF ~r.ok THEN [ok |-> FALSE, err |-> "Failed to parse BLF"]
       ELSE LET total_frames == Cardinality({i \in 1..Len(r.objs) :
                                                r.objs[i].kind = "CanMessage86"})
                step == Max(1, total_frames \div Max(max_points, 1))
                w == stream_walk(r.objs, m.map, step,
                                 [count |-> 0, times |-> <<>>, signals_map |-> <<>>,
                                  progress |-> <<>>], checks)
            IN [ok |-> TRUE,
                out |-> [time |-> w.times,
                         signals |-> [k \in DOMAIN w.signals_map |->
                                        [j \in 1..Len(w.signals_map[k]) |->
                                            <<w.signals_map[k][j]>>]]],
                progress |-> w.progress]

-----------------------------------------------------------------------------
(* The inputs the model draws from *)

NameX == <<88>>
NameY == <<89>>
NameZ == <<90>>

Signal(name, start, len, order, type, factor, offset, unit) ==
    [name |-> name, start_bit |-> start, signal_size |-> len, byte_order |-> order,
     value_type |-> type, factor |-> factor, offset |-> offset, unit |-> unit]

\* channel 1's table: X an unsigned byte, Y a signed scaled nibble, Z a span
\* that leaves the 64-bit window
TextA == [parses |-> TRUE,
          messages |-> <<[message_id |-> 16, message_name |-> "Engine",
                          signals |-> <<Signal(NameX, 0, 8, "LittleEndian", "Unsigned", 1, 0, "rpm"),
                                        Signal(NameY, 8, 4, "LittleEndian", "Signed", 2, 1, "degC"),
                                        Signal(NameZ, 60, 8, "LittleEndian", "Unsigned", 1, 0, "")>>]>>]

\* channel 2's table: a signal of the same name X, big-endian
TextB == [parses |-> TRUE,
          messages |-> <<[message_id |-> 16, message_name |-> "Body",
                          signals |-> <<Signal(NameX, 7, 8, "BigEndian", "Unsigned", 1, 0, "")>>]>>]

\* a definition text the parser rejects
TextBad == [parses |-> FALSE, messages |-> <<>>]

\* the (dbc_texts, channel_map) pairs a caller passes: paired lists, a channel
\* without a table, lists of different lengths, a text that does not parse
Configs ==
    {[texts |-> <<TextA, TextB>>, chans |-> <<1, 2>>],
     [texts |-> <<TextA>>, chans |-> <<1>>],
     [texts |-> <<TextA, TextB>>, chans |-> <<1>>],
     [texts |-> <<TextA>>, chans |-> <<1, 2>>],
     [texts |-> <<TextBad>>, chans |-> <<1>>]}

\* the kinds of log object: a data frame of channel 1, a data frame of
\* channel 2, and an object that is no CanMessage86
ObjKinds == {"A", "B", "Other"}

\* the log object of a kind at position i of the log: objects are stamped
\* 250 ms apart and their first payload byte counts the position
LogObject(kind, i) ==
    IF kind = "Other" THEN [kind |-> "Other"]
    ELSE [kind |-> "CanMessage86",
          channel |-> IF kind = "B" THEN 2 ELSE 1,
          id |-> 16,
          dlc |-> 2,
          data |-> IF kind = "A" THEN <<i, 8>> ELSE <<128 + i, 1>>,
          timestamp_ns |-> i * 250000000]

Logs ==
    UNION {{[i \in 1..n |-> LogObject(ks[i], i)] : ks \in [1..n -> ObjKinds]} : n \in 0..MaxObjs}

Containers == {[parses |-> TRUE, objs |-> l] : l \in Logs} \cup {[parses |-> FALSE, objs |-> <<>>]}

\* the retained-signal arguments of decimated and the selections of export_csv:
\* absent, one known name, a repeated name, an unknown name beside a known one
KeepChoices ==
    {<<>>,
     <<(<<QualifiedName(1, NameX)>>)>>,
     <<(<<QualifiedName(1, NameX), QualifiedName(1, NameX)>>)>>,
     <<(<<QualifiedName(9, NameZ), QualifiedName(2, NameX)>>)>>}

\* the most sink invocations of one modelled export_csv_stream pass
MaxCalls == 2

\* a long log is given by its length and the positions of its objects that are
\* no CanMessage86; of the others every fourth is a frame of channel 2
KindAt(log, i) ==
    IF i \in log.other THEN "Other" ELSE IF i % 4 = 3 THEN "B" ELSE "A"

\* the log object at position i of a long log: objects are stamped 1 us apart
\* and their payload counts the position
ObjectAt(log, i) ==
    IF KindAt(log, i) = "Other" THEN [kind |-> "Other"]
    ELSE [kind |-> "CanMessage86",
          channel |-> IF KindAt(log, i) = "B" THEN 2 ELSE 1,
          id |-> 16,
          dlc |-> 2,
          data |-> <<i % 256, (i \div 256) % 256>>,
          timestamp_ns |-> i * 1000]

\* a long log of n objects, those at the places o being no frames
LongLog(n, o) == [parses |-> TRUE, len |-> n, other |-> o]

\* the logs export_csv_stream is walked over: an empty one; one whose last
\* object is the 10,000th frame; one of as many objects that falls one frame
\* short; one with objects that are no frames at the head and around the
\* 10,000th place, whose last object is the frame that makes the last call
\* due; a container that does not parse
LongLogs ==
    {LongLog(0, {}),
     LongLog(CsvProgressRows, {}),
     LongLog(CsvProgressRows, {1}),
     LongLog(MaxCalls * CsvProgressRows + 3, {2, CsvProgressRows, CsvProgressRows + 1}),
     [parses |-> FALSE, len |-> 0, other |-> {}]}

\* the (dbc_texts, channel_map) pairs of the long passes: a table for each
\* channel of the log, and a text that does not parse
StreamConfigs ==
    {[texts |-> <<TextA, TextB>>, chans |-> <<1, 2>>],
     [texts |-> <<TextBad>>, chans |-> <<1>>]}

\* the signals and payloads the decoder is applied to on its own
DecodeSignals ==
    {Signal(NameX, st, ln, ord, ty, sc[1], sc[2], "") :
        st \in {0, 1, 4, 7, 8, 56, 60, 63},
        ln \in {0, 1, 4, 8, 16, 63, 64, 65},
        ord \in {"LittleEndian", "BigEndian"},
        ty \in {"Signed", "Unsigned"},
        sc \in {<<1, 0>>, <<3, -40>>}}

DecodePayloads ==
    {<<a, b, c, c, c, c, c, d>> : a \in {0, 42, 128, 255}, b \in {0, 1, 127, 255},
                                  c \in {0, 165}, d \in {1, 128}}
    \cup {<<>>, <<42>>, <<8, 255>>, <<255, 255, 255, 255, 255, 255, 255, 255, 255>>}

NoSignal == Signal(<<>>, 0, 0, "LittleEndian", "Unsigned", 1, 0, "")
Pending == [kind |-> "pending"]
NoCall == [i |-> 0]
NoResult == [op |-> "none"]
NoReader == [pos |-> 0]

-----------------------------------------------------------------------------
(* The decoder on its own *)

InitDecode ==
    /\ sig \in DecodeSignals
    /\ data \in DecodePayloads
    /\ overflow_checks \in BOOLEAN
    /\ decoded = Pending
    /\ blf = [parses |-> TRUE, objs |-> <<>>]
    /\ dbc_texts = <<>>
    /\ channel_map = <<>>
    /\ session = "none"
    /\ frames = <<>>
    /\ signal_names = <<>>
    /\ freed = FALSE
    /\ pc = "idle"
    /\ dec = NoCall
    /\ result = NoResult
    /\ reader = NoReader
    /\ csv = NoCall
    /\ sink = <<>>

Decode ==
    /\ decoded = Pending
    /\ decoded' = decode_signal_value(sig, data, overflow_checks)
    /\ UNCHANGED <<sig, data, overflow_checks, inputVars, sessionVars, streamVars>>

NextDecode == Decode

SpecDecode == InitDecode /\ [][NextDecode]_vars

-----------------------------------------------------------------------------
(* The session and the streaming entry points *)

\* The tables of the modelled inputs hold no 64-bit little-endian signal, so
\* the build profile does not show; the release profile is taken.
Init ==
    /\ sig = NoSignal
    /\ data = <<>>
    /\ overflow_checks = FALSE
    /\ decoded = Pending
    /\ blf \in Containers
    /\ \E c \in Configs : dbc_texts = c.texts /\ channel_map = c.chans
    /\ session = "none"
    /\ frames = <<>>
    /\ signal_names = <<>>
    /\ freed = FALSE
    /\ pc = "idle"
    /\ dec = NoCall
    /\ result = NoResult
    /\ reader = NoReader
    /\ csv = NoCall
    /\ sink = <<>>

CallNew ==
    /\ pc = "idle"
    /\ session = "none"
    /\ LET r == new(blf, dbc_texts, channel_map, overflow_checks)
       IN /\ session' = IF r.ok THEN "ok" ELSE "err"
          /\ frames' = IF r.ok THEN r.frames ELSE <<>>
          /\ signal_names' = IF r.ok THEN r.signal_names ELSE <<>>
          /\ result' = IF r.ok THEN [op |-> "new", ok |-> TRUE]
                       ELSE [op |-> "new", ok |-> FALSE, err |-> r.err]
    /\ pc' = "returned"
    /\ UNCHANGED <<decodeVars, inputVars, streamVars, freed, dec>>

CallStats ==
    /\ pc = "idle"
    /\ session = "ok"
    /\ result' = [op |-> "stats", ok |-> TRUE, out |-> stats(frames, signal_names)]
    /\ pc' = "returned"
    /\ UNCHANGED <<decodeVars, inputVars, streamVars, session, frames, signal_names, freed, dec>>

CallPreview ==
    /\ pc = "idle"
    /\ session = "ok"
    /\ \E n \in {0, 1, PreviewCap} :
         result' = [op |-> "preview", ok |-> TRUE, n |-> n, out |-> preview(frames, n)]
    /\ pc' = "returned"
    /\ UNCHANGED <<decodeVars, inputVars, streamVars, session, frames, signal_names, freed, dec>>

CallSignals ==
    /\ pc = "idle"
    /\ session = "ok"
    /\ result' = [op |-> "signals", ok |-> TRUE, out |-> signals(signal_names)]
    /\ pc' = "returned"
    /\ UNCHANGED <<decodeVars, inputVars, streamVars, session, frames, signal_names, freed, dec>>

CallExportCsv ==
    /\ pc = "idle"
    /\ session = "ok"
    /\ \E sel \in KeepChoices :
         result' = [op |-> "export_csv", ok |-> TRUE, selected |-> sel,
                    out |-> export_csv(frames, sel)]
    /\ pc' = "returned"
    /\ UNCHANGED <<decodeVars, inputVars, streamVars, session, frames, signal_names, freed, dec>>

CallFreeMemory ==
    /\ pc = "idle"
    /\ session = "ok"
    /\ LET s == free_memory(frames, signal_names)
       IN frames' = s.frames /\ signal_names' = s.signal_names
    /\ freed' = TRUE
    /\ result' = [op |-> "free_memory", ok |-> TRUE]
    /\ pc' = "returned"
    /\ UNCHANGED <<decodeVars, inputVars, streamVars, session, dec>>

\* decimated() up to its loop: the early return of an empty session, the
\* division by max_points (a zero divisor panics), the locals
CallDecimated ==
    /\ pc = "idle"
    /\ session = "ok"
    /\ \E mp \in 0..MaxPoints, keep \in KeepChoices :
         IF frames = <<>>
         THEN /\ result' = [op |-> "decimated", ok |-> TRUE, max_points |-> mp,
                            keep |-> keep, out |-> decimated_empty]
              /\ pc' = "returned"
              /\ UNCHANGED dec
         ELSE IF mp = 0
         THEN /\ result' = [op |-> "decimated", ok |-> FALSE, max_points |-> mp,
                            keep |-> keep, err |-> "panic: divide by zero"]
              /\ pc' = "returned"
              /\ UNCHANGED dec
         ELSE /\ dec' = decimated_begin(frames, signal_names, mp, keep)
              /\ pc' = "decimated"
              /\ result' = NoResult
    /\ UNCHANGED <<decodeVars, inputVars, streamVars, session, frames, signal_names, freed>>

\* one iteration of decimated()'s loop
DecimatedFrame ==
    /\ pc = "decimated"
    /\ dec.i < Len(frames)
    /\ dec' = decimated_frame(dec, frames[dec.i + 1])
    /\ UNCHANGED <<decodeVars, inputVars, streamVars, session, frames, signal_names, freed, pc, result>>

\* the loop is over: decimated() returns its JSON object
DecimatedReturn ==
    /\ pc = "decimated"
    /\ dec.i = Len(frames)
    /\ result' = [op |-> "decimated", ok |-> TRUE, max_points |-> dec.max_points,
                  keep |-> dec.keep, out |-> decimated_end(dec)]
    /\ pc' = "returned"
    /\ dec' = NoCall
    /\ UNCHANGED <<decodeVars, inputVars, streamVars, session, frames, signal_names, freed>>

CallLoadPreviewSmart ==
    /\ pc = "idle"
    /\ \E file_size \in {BufLen(blf), 1024 * 1024 * 1024} :
         result' = [op |-> "load_preview_smart", file_size |-> file_size,
                    ret |-> load_preview_smart(blf, dbc_texts, channel_map, file_size,
                                               overflow_checks)]
    /\ pc' = "returned"
    /\ UNCHANGED <<decodeVars, inputVars, streamVars, session, frames, signal_names, freed, dec>>

CallExportCsvStream ==
    /\ pc = "idle"
    /\ result' = [op |-> "export_csv_stream",
                  ret |-> export_csv_stream(blf, dbc_texts, channel_map, overflow_checks)]
    /\ pc' = "returned"
    /\ UNCHANGED <<decodeVars, inputVars, streamVars, session, frames, signal_names, freed, dec>>

CallDecimatedStream ==
    /\ pc = "idle"
    /\ \E mp \in 0..MaxPoints :
         result' = [op |-> "decimated_stream", max_points |-> mp,
                    ret |-> decimated_stream(blf, dbc_texts, channel_map, mp,
                                             overflow_checks)]
    /\ pc' = "returned"
    /\ UNCHANGED <<decodeVars, inputVars, streamVars, session, frames, signal_names, freed, dec>>

\* the caller takes the returned value and is free to make its next call
Resume ==
    /\ pc = "returned"
    /\ pc' = "idle"
    /\ result' = NoResult
    /\ UNCHANGED <<decodeVars, inputVars, streamVars, session, frames, signal_names, freed, dec>>

Next ==
    \/ CallNew
    \/ CallStats
    \/ CallPreview
    \/ CallSignals
    \/ CallExportCsv
    \/ CallFreeMemory
    \/ CallDecimated
    \/ DecimatedFrame
    \/ DecimatedReturn
    \/ CallLoadPreviewSmart
    \/ CallExportCsvStream
    \/ CallDecimatedStream
    \/ Resume

Spec == Init /\ [][Next]_vars

-----------------------------------------------------------------------------
(* export_csv_stream over a long log, one log object per step *)

InitCsvStream ==
    /\ sig = NoSignal
    /\ data = <<>>
    /\ overflow_checks = FALSE
    /\ decoded = Pending
    /\ blf = [parses |-> TRUE, objs |-> <<>>]
    /\ \E c \in StreamConfigs : dbc_texts = c.texts /\ channel_map = c.chans
    /\ session = "none"
    /\ frames = <<>>
    /\ signal_names = <<>>
    /\ freed = FALSE
    /\ pc = "idle"
    /\ dec = NoCall
    /\ result = NoResult
    /\ \E l \in LongLogs : reader = [log |-> l, pos |-> 0]
    /\ csv = NoCall
    /\ sink = <<>>

\* export_csv_stream up to its loop; a definition text or a container that
\* does not parse ends the call with Err
CsvStreamBegin ==
    /\ pc = "idle"
    /\ LET b == csv_stream_begin(reader.log, dbc_texts, channel_map)
       IN IF b.ok
          THEN /\ csv' = b
               /\ pc' = "export_csv_stream"
               /\ result' = NoResult
          ELSE /\ result' = [op |-> "export_csv_stream", ret |-> b]
               /\ pc' = "returned"
               /\ UNCHANGED csv
    /\ UNCHANGED <<decodeVars, inputVars, session, frames, signal_names, freed, dec,
                   reader, sink>>

\* one iteration of the loop: the next log object is read, its row is written
\* and, on the cadence, the sink is called inline; the sink returns or throws
CsvStreamObject ==
    /\ pc = "export_csv_stream"
    /\ reader.pos < reader.log.len
    /\ LET pos == reader.pos + 1
           r == csv_stream_object(csv, ObjectAt(reader.log, pos), pos, overflow_checks)
       IN /\ csv' = r.locals
          /\ reader' = [reader EXCEPT !.pos = pos]
          /\ IF r.notify = <<>> THEN UNCHANGED sink
             ELSE \E threw \in BOOLEAN : sink' = call1(sink, r.notify[1], threw)
    /\ UNCHANGED <<decodeVars, inputVars, session, frames, signal_names, freed, pc, dec,
                   result>>

\* the container is exhausted: export_csv_stream returns the buffer
CsvStreamReturn ==
    /\ pc = "export_csv_stream"
    /\ reader.pos = reader.log.len
    /\ result' = [op |-> "export_csv_stream", ret |-> csv_stream_end(csv)]
    /\ pc' = "returned"
    /\ csv' = NoCall
    /\ UNCHANGED <<decodeVars, inputVars, session, frames, signal_names, freed, dec,
                   reader, sink>>

NextCsvStream ==
    \/ CsvStreamBegin
    \/ CsvStreamObject
    \/ CsvStreamReturn

SpecCsvStream == InitCsvStream /\ [][NextCsvStream]_vars

-----------------------------------------------------------------------------
(* Claims about the decoder, checked under SpecDecode *)

\* bit p of the payload, bytes beyond the payload's length (or beyond 8) reading 0
PayloadBit(bytes, p) ==
    /\ p \div 8 < Min(8, Len(bytes))
    /\ (bytes[(p \div 8) + 1] \div Pow2(p % 8)) % 2 = 1

\* payload byte 0 as an unsigned integer (0 for an empty payload)
PayloadByte0(bytes) == IF bytes = <<>> THEN 0 ELSE bytes[1]

IsFullByteBigEndian(s) ==
    /\ s.byte_order = "BigEndian"
    /\ s.value_type = "Unsigned"
    /\ s.start_bit = 7
    /\ s.signal_size = 8
    /\ s.factor = 1
    /\ s.offset = 0

\* C5: decoding an unsigned big-endian signal with start_bit = 7, bit_length = 8,
\* factor = 1, offset = 0 returns payload byte 0 unchanged, whatever the other
\* payload bytes are.
C5_BigEndianFullByte ==
    (decoded.kind /= "pending" /\ IsFullByteBigEndian(sig))
        => (decoded.kind = "some" /\ decoded.value = PayloadByte0(data))

IsLittleEndianInWindow(s) ==
    /\ s.byte_order = "LittleEndian"
    /\ 1 <= s.signal_size
    /\ s.signal_size <= 64
    /\ s.start_bit + s.signal_size <= 64

\* C10: for every little-endian signal with 1 <= bit_length <= 64 and
\* start_bit + bit_length <= 64 the decoder neither traps nor overflows, and the
\* integer before scaling has bit i equal to payload bit start_bit + i for
\* i < bit_length; above that its bits are 0 when unsigned and copies of the
\* signal's top bit when signed (the two's-complement value of the field, in
\* [-2^(bit_length-1), 2^(bit_length-1) - 1]).
C10_LittleEndianExtract ==
    (decoded.kind /= "pending" /\ IsLittleEndianInWindow(sig))
        => /\ decoded.kind = "some"
           /\ \A i \in 0..(WordBits - 1) :
                (i \in decoded.int) <=>
                    IF i < sig.signal_size
                    THEN PayloadBit(data, sig.start_bit + i)
                    ELSE /\ sig.value_type = "Signed"
                         /\ PayloadBit(data, sig.start_bit + sig.signal_size - 1)

-----------------------------------------------------------------------------
(* Claims about the session and the streaming entry points, checked under Spec *)

\* the data frames of the log as the frame builder decodes them, whether or not
\* a session holds them
LogFrames ==
    build_frames(blf.objs, build_dbc_map(dbc_texts, channel_map, <<>>).map,
                 [frames |-> <<>>, seen |-> <<>>], overflow_checks).frames

\* the timestamps of a frame sequence, in order
TimesOf(fs) == [i \in 1..Len(fs) |-> fs[i].timestamp]

\* the frames (1-based positions) that carry a row of the signal
ObservedIn(fs, name) ==
    {i \in 1..Len(fs) : \E r \in 1..Len(fs[i].signals) : fs[i].signals[r].signal = name}

\* the value of the signal in a frame that carries it (its last row of that name)
ValueIn(f, name) ==
    LET hits == {r \in 1..Len(f.signals) : f.signals[r].signal = name}
    IN f.signals[CHOOSE r \in hits : \A q \in hits : q <= r].value

\* the most recently observed value of the signal in frames 1..idx: <<v>>, or
\* <<>> when none of them carries it
LastObserved(fs, name, idx) ==
    LET hits == {i \in ObservedIn(fs, name) : i <= idx}
    IN IF hits = {} THEN <<>>
       ELSE <<ValueIn(fs[CHOOSE i \in hits : \A q \in hits : q <= i], name)>>

\* the position of the frame with the given timestamp (stamps are distinct)
FrameAt(fs, ts) == CHOOSE i \in 1..Len(fs) : fs[i].timestamp = ts

DecimatedDone == pc = "returned" /\ result.op = "decimated" /\ result.ok
StreamDone == pc = "returned" /\ result.op = "decimated_stream" /\ result.ret.ok

\* C1: for every log, definition table and max_points >= 1, decimated_stream
\* returns what the session decimator returns with every registry signal
\* retained: the same time axis and, for every signal name, the same
\* value-or-missing array.
C1_StreamMatchesSession ==
    (DecimatedDone /\ result.keep = <<>> /\ result.max_points >= 1 /\ ~freed)
        => LET s == decimated_stream(blf, dbc_texts, channel_map, result.max_points,
                                     overflow_checks)
           IN /\ s.ok
              /\ s.out.time = result.out.time
              /\ DOMAIN s.out.signals = DOMAIN result.out.signals
              /\ \A name \in DOMAIN result.out.signals :
                    s.out.signals[name] = result.out.signals[name]

\* every array as long as the time axis, entry j the value reported for the
\* frame stamped time[j]
Aligned(out, fs) ==
    \A name \in DOMAIN out.signals :
        /\ Len(out.signals[name]) = Len(out.time)
        /\ \A j \in 1..Len(out.time) :
              out.signals[name][j] = LastObserved(fs, name, FrameAt(fs, out.time[j]))

\* C2: in the result of decimated (for any retained-signal list, unknown or
\* repeated names included) and of decimated_stream, every per-signal array has
\* the length of the time axis and is aligned with it index for index.
C2_ArraysAlignedWithTime ==
    /\ DecimatedDone => Aligned(result.out, frames)
    /\ StreamDone => Aligned(result.ret.out, LogFrames)

\* a signal the session observes in exactly one frame
ObservedOnce(name) == Cardinality(ObservedIn(frames, name)) = 1

\* the one frame (1-based position) that carries it
SingleFrame(name) == CHOOSE k \in ObservedIn(frames, name) : TRUE

\* what such a signal reads at the sampled frame of 0-based index i: missing
\* before the frame that carries it, that frame's value from there on
ReadsOnceAt(name, i) ==
    IF i + 1 < SingleFrame(name) THEN <<>>
    ELSE <<ValueIn(frames[SingleFrame(name)], name)>>

\* the returned array of a once-observed signal that the retained list names
\* once: entry j is the reading at the sampled frame (j - 1) * step
C3_Returned ==
    DecimatedDone =>
        LET keys == IF result.keep = <<>> THEN signal_names ELSE result.keep[1]
            step == Max(1, Len(frames) \div result.max_points)
        IN \A name \in DOMAIN result.out.signals :
              (ObservedOnce(name) /\ Cardinality({q \in 1..Len(keys) : keys[q] = name}) = 1)
                  => result.out.signals[name] =
                        [j \in 1..Len(result.out.time) |-> ReadsOnceAt(name, (j - 1) * step)]

\* a loop iteration over a sampled frame gives the array of every retained
\* once-observed signal its reading at that frame, and nothing else
C3_Sampled ==
    (pc = "decimated" /\ pc' = "decimated" /\ dec.i % dec.step = 0)
        => \A name \in Range(dec.keys) :
              ObservedOnce(name) =>
                  LET old == dec.dec_signals[name]
                      now == dec'.dec_signals[name]
                  IN /\ Len(now) > Len(old)
                     /\ SubSeq(now, 1, Len(old)) = old
                     /\ \A q \in (Len(old) + 1)..Len(now) : now[q] = ReadsOnceAt(name, dec.i)

\* C3: when decimated retains a signal that is observed in exactly one frame,
\* at index k, the signal reads missing at every sampled frame before k and
\* reads that frame's value at every sampled frame from k onward (a frame's own
\* signals are applied before the frame is sampled).
C3_ObservedOnceCarriesForward == [](C3_Returned) /\ [][C3_Sampled]_vars

\* a returned array that starts missing and ends with the one observed value
C3_Witness ==
    /\ DecimatedDone
    /\ \E name \in DOMAIN result.out.signals :
          /\ ObservedOnce(name)
          /\ Len(result.out.signals[name]) >= 2
          /\ result.out.signals[name][1] = <<>>
          /\ result.out.signals[name][Len(result.out.signals[name])] /= <<>>

\* the time axis of n frames stamped ts under a budget m: the frames at
\* indices 0, stride, 2 * stride, ..., ceil(n / stride) of them
StrideOf(n, m) == Max(1, n \div m)
SampledTimes(ts, m) ==
    LET stride == StrideOf(Len(ts), m)
    IN [j \in 1..((Len(ts) + stride - 1) \div stride) |-> ts[(j - 1) * stride + 1]]

\* the stamps of the log's data frames, read off the log objects
LogTimes ==
    LET idx == {i \in 1..Len(blf.objs) : blf.objs[i].kind = "CanMessage86"}
        nth(j) == CHOOSE i \in idx : Cardinality({q \in idx : q < i}) = j - 1
    IN [j \in 1..Cardinality(idx) |-> Seconds(blf.objs[nth(j)].timestamp_ns)]

\* C4: for N frames and a budget M >= 1, decimated and decimated_stream use
\* stride = max(1, N div M) and return exactly ceil(N / stride) samples, the
\* frames at indices 0, stride, 2 * stride, ... in log order.
C4_StrideSampling ==
    /\ pc = "decimated" => dec.step = StrideOf(Len(frames), dec.max_points)
    /\ (DecimatedDone /\ result.max_points >= 1)
          => result.out.time = SampledTimes(TimesOf(frames), result.max_points)
    /\ (StreamDone /\ result.max_points >= 1)
          => result.ret.out.time = SampledTimes(LogTimes, result.max_points)

\* a streamed log whose stride is above 1 and does not divide its frame count
C4_Witness ==
    /\ StreamDone
    /\ result.max_points >= 1
    /\ StrideOf(Len(LogTimes), result.max_points) > 1
    /\ Len(LogTimes) % StrideOf(Len(LogTimes), result.max_points) /= 0
    /\ Len(result.ret.out.time) > 1

\* C6: after free_memory every later query behaves as on an empty session,
\* whatever calls follow and in whatever order: stats reports (0, 0.0, 0.0, 0),
\* preview(n) returns no frame, signals an empty list, decimated an empty time
\* axis, export_csv only the header row; nothing restores a frame or a name.
C6_FreedStaysEmpty ==
    freed =>
        /\ frames = <<>>
        /\ signal_names = <<>>
        /\ pc /= "decimated"
        /\ result.op = "stats" => result.out = <<0, ZeroSeconds, ZeroSeconds, 0>>
        /\ result.op = "preview" => result.out = <<>>
        /\ result.op = "signals" => result.out = <<>>
        /\ result.op = "decimated" => (result.ok /\ result.out.time = <<>>)
        /\ result.op = "export_csv" =>
              (result.out.rows = <<>> /\ Len(result.out.header) >= Len(BaseHeader))

\* a session that decoded frames and names, was freed, and is asked for its stats
C6_Witness ==
    /\ freed
    /\ pc = "returned"
    /\ result.op = "stats"
    /\ LogFrames /= <<>>
    /\ \E i \in 1..Len(LogFrames) : LogFrames[i].signals /= <<>>

\* C7: when the definition-text list and the channel-id list differ in length,
\* new, load_preview_smart, export_csv_stream and decimated_stream all abort
\* with an error: no session and no output is produced from a truncated pairing.
C7_LengthMismatchAborts ==
    Len(dbc_texts) /= Len(channel_map) =>
        /\ session /= "ok"
        /\ result.op = "new" => ~result.ok
        /\ result.op \in {"load_preview_smart", "export_csv_stream", "decimated_stream"}
              => ~result.ret.ok

\* the names decimated retains: the registry by default, else the given list
Retained(keep) == IF keep = <<>> THEN Range(signal_names) ELSE Range(keep[1])

\* C8: on a session with zero frames stats returns (0, 0.0, 0.0, 0) and decimated
\* returns an empty time axis with an empty array for every retained signal
\* name, for the default retained set and for a given list; neither fails.
C8_EmptySession ==
    (session = "ok" /\ frames = <<>>) =>
        /\ result.op = "stats" => result.out = <<0, ZeroSeconds, ZeroSeconds, 0>>
        /\ (result.op = "decimated" /\ result.max_points >= 1) =>
              /\ result.ok
              /\ result.out.time = <<>>
              /\ \A name \in Retained(result.keep) :
                    /\ name \in DOMAIN result.out.signals
                    /\ result.out.signals[name] = <<>>

\* the table the frame's channel is paired with (the last pairing of a channel wins)
TableOf(channel) ==
    LET hits == {j \in 1..Min(Len(dbc_texts), Len(channel_map)) : channel_map[j] = channel}
    IN IF hits = {} THEN <<>>
       ELSE dbc_texts[CHOOSE j \in hits : \A q \in hits : q <= j].messages

\* a span inside the 64-bit window
InWindow(sg) == sg.signal_size >= 1 /\ sg.start_bit + sg.signal_size <= WordBits

\* the qualified names of the signals that decode in at least one data frame,
\* read off the log objects and the definition tables
DecodedNames ==
    UNION {UNION {{QualifiedName(o.channel, sg.name) :
                      sg \in {x \in Range(m.signals) : InWindow(x)}} :
                  m \in {x \in Range(TableOf(o.channel)) : x.message_id = o.id}} :
           o \in {x \in Range(blf.objs) : x.kind = "CanMessage86"}}

SortedDistinctExact(names) ==
    /\ \A i \in 1..(Len(names) - 1) : StrLess(names[i], names[i + 1])
    /\ Range(names) = DecodedNames

\* C9: after construction signals() is sorted ascending without a duplicate and
\* holds exactly the qualified names "CAN{channel}.{signal_name}" of the signals
\* decoded in at least one frame; a signal named X decoded on two channels
\* appears as two distinct entries.
C9_RegistrySortedDistinctExact ==
    (session = "ok" /\ ~freed) =>
        /\ SortedDistinctExact(signal_names)
        /\ result.op = "signals" => SortedDistinctExact(result.out)

\* signals() of a log whose first decoded frame is channel 2's X and a later
\* one channel 1's X: both entries, in ascending order
C9_Witness ==
    /\ session = "ok"
    /\ ~freed
    /\ pc = "returned"
    /\ result.op = "signals"
    /\ Len(LogFrames) >= 2
    /\ \E r \in 1..Len(LogFrames[1].signals) :
          LogFrames[1].signals[r].signal = QualifiedName(2, NameX)
    /\ \E i, j \in 1..Len(result.out) :
          /\ i < j
          /\ result.out[i] = QualifiedName(1, NameX)
          /\ result.out[j] = QualifiedName(2, NameX)

-----------------------------------------------------------------------------
(* Claims about export_csv_stream's pass, checked under SpecCsvStream *)

\* the number of data frames among the first p objects of a long log
DataFramesUpTo(log, p) == p - Cardinality({i \in log.other : i <= p})

\* the sink arguments due once n rows are emitted: 10000, 20000, ... up to n
CallsDue(n) == [k \in 1..(n \div CsvProgressRows) |-> k * CsvProgressRows]

\* the arguments the sink has received, in order of invocation
SinkCounts == [k \in 1..Len(sink) |-> sink[k].count]

RECURSIVE RowCount(_)
RowCount(rows) ==
    IF rows = <<>> THEN 0 ELSE (Head(rows).to - Head(rows).from + 1) + RowCount(Tail(rows))

\* the data records are the rows of exactly the data frames among the first p
\* objects, each once and in log order, the last written one formatted from
\* the last of those frames
RowsCover(wtr, log, p) ==
    /\ wtr.header = BaseHeader
    /\ \A k \in 1..Len(wtr.rows) :
          /\ 1 <= wtr.rows[k].from
          /\ wtr.rows[k].from <= wtr.rows[k].to
          /\ wtr.rows[k].to <= p
          /\ \A i \in log.other : i < wtr.rows[k].from \/ i > wtr.rows[k].to
    /\ \A k \in 1..(Len(wtr.rows) - 1) : wtr.rows[k].to < wtr.rows[k + 1].from
    /\ RowCount(wtr.rows) = DataFramesUpTo(log, p)
    /\ IF wtr.rows = <<>> THEN wtr.last = <<>>
       ELSE /\ Len(wtr.last) = 1
            /\ wtr.last[1][1] =
                 TimeCell([sec |-> 0, nano |-> wtr.rows[Len(wtr.rows)].to * 1000])

\* every definition text that is paired with a channel parses
TablesParse ==
    \A j \in 1..Min(Len(dbc_texts), Len(channel_map)) : dbc_texts[j].parses

\* C11: during export_csv_stream the progress sink is invoked exactly once
\* after each 10,000th emitted data row, with the cumulative row count (10000,
\* 20000, ...) as argument, and at no other time; objects that are not data
\* frames neither emit a row nor advance the count; a sink invocation that
\* fails does not abort the pass, so the returned buffer still contains one
\* row per data frame of the whole stream, in log order.
C11_ProgressEveryTenThousandRows ==
    /\ pc = "idle" => sink = <<>>
    /\ pc = "export_csv_stream" =>
          /\ csv.frame_count = DataFramesUpTo(reader.log, reader.pos)
          /\ SinkCounts = CallsDue(DataFramesUpTo(reader.log, reader.pos))
          /\ RowsCover(csv.wtr, reader.log, reader.pos)
    /\ (pc = "returned" /\ result.op = "export_csv_stream") =>
          IF TablesParse /\ reader.log.parses
          THEN /\ result.ret.ok
               /\ reader.pos = reader.log.len
               /\ SinkCounts = CallsDue(DataFramesUpTo(reader.log, reader.log.len))
               /\ RowsCover(result.ret.out, reader.log, reader.log.len)
          ELSE ~result.ret.ok /\ sink = <<>>

\* a pass over a log with objects that are no frames, returned after the sink
\* was called at 10000 (and threw) and at 20000
C11_Witness ==
    /\ pc = "returned"
    /\ result.op = "export_csv_stream"
    /\ result.ret.ok
    /\ reader.log.other /= {}
    /\ Len(sink) >= 2
    /\ sink[1] = [count |-> CsvProgressRows, threw |-> TRUE]
    /\ sink[2].count = 2 * CsvProgressRows
    /\ RowCount(result.ret.out.rows) = reader.log.len - Cardinality(reader.log.other)

====
